---- MODULE Spec2Model ----
(***************************************************************************)
(* Model of the static property initializer visitor of the ES2022 class    *)
(* properties transform                                                    *)
(* (crates/oxc_transformer/src/es2022/class_properties/static_prop_init.rs).*)
(*                                                                         *)
(* The recursive visitor is unfolded into a machine with an explicit work  *)
(* stack: one action per visitor method entry and one per the code that a  *)
(* method runs after walking its children.                                 *)
(***************************************************************************)
EXTENDS Integers, Sequences, FiniteSets, TLC

\* ------------------------------------------------------------------ bounds

\* Nesting depth of the constructs generated around a leaf expression.
MaxDepth == 2

\* ------------------------------------------------------- AST constructors

\* A tree node before numbering.  `roles` names the field of the parent
\* struct each child sits in.
Node(kind, op, strict, computed, sym, roles, kids) ==
    [kind |-> kind, op |-> op, strict |-> strict, computed |-> computed,
     sym |-> sym, roles |-> roles, kids |-> kids]

Leaf(kind) == Node(kind, "", FALSE, FALSE, "", <<>>, <<>>)

This == Leaf("ThisExpression")
Super == Leaf("Super")
\* An identifier reference; `sym` is what it resolves to before the pass:
\* "class" (the class name symbol), "other" (another symbol), "" (unresolved).
Ident(sym) == Node("IdentifierReference", "", FALSE, FALSE, sym, <<>>, <<>>)
Unary(op, arg) ==
    Node("UnaryExpression", op, FALSE, FALSE, "", <<"argument">>, <<arg>>)
StaticMember(obj) ==
    Node("StaticMemberExpression", "", FALSE, FALSE, "", <<"object">>, <<obj>>)
ComputedMember(obj, e) ==
    Node("ComputedMemberExpression", "", FALSE, FALSE, "",
         <<"object", "expression">>, <<obj, e>>)
Call(callee, arg) ==
    Node("CallExpression", "", FALSE, FALSE, "",
         <<"callee", "arguments">>, <<callee, arg>>)
\* A member expression in assignment-target position (`AssignmentTarget`,
\* not `Expression`): reached through `visit_assignment_target`.
MemberTarget(obj) ==
    Node("MemberTarget", "", FALSE, FALSE, "", <<"object">>, <<obj>>)
Assignment(target, right) ==
    Node("AssignmentExpression", "", FALSE, FALSE, "",
         <<"left", "right">>, <<target, right>>)
Update(target) ==
    Node("UpdateExpression", "", FALSE, FALSE, "", <<"argument">>, <<target>>)
Sequence(a, b) ==
    Node("SequenceExpression", "", FALSE, FALSE, "",
         <<"expressions", "expressions">>, <<a, b>>)
Function(strict, body) ==
    Node("Function", "", strict, FALSE, "", <<"body">>, <<body>>)
Arrow(strict, body) ==
    Node("ArrowFunctionExpression", "", strict, FALSE, "", <<"body">>, <<body>>)
Block(body) ==
    Node("BlockStatement", "", FALSE, FALSE, "", <<"body">>, <<body>>)
TSModuleBlock(strict, body) ==
    Node("TSModuleBlock", "", strict, FALSE, "", <<"body">>, <<body>>)
Class(element) ==
    Node("Class", "", FALSE, FALSE, "", <<"body">>, <<element>>)
StaticBlock(body) ==
    Node("StaticBlock", "", FALSE, FALSE, "", <<"body">>, <<body>>)
\* Property and accessor definitions: any of the fields decorators, key,
\* value, type_annotation, given by `roles`.
PropertyDefinition(computed, roles, kids) ==
    Node("PropertyDefinition", "", FALSE, computed, "", roles, kids)
AccessorProperty(computed, roles, kids) ==
    Node("AccessorProperty", "", FALSE, computed, "", roles, kids)
TSAs(e, type) ==
    Node("TSAsExpression", "", FALSE, FALSE, "",
         <<"expression", "type_annotation">>, <<e, type>>)
TSConditionalType(check, ext, true, false) ==
    Node("TSConditionalType", "", FALSE, FALSE, "",
         <<"check_type", "extends_type", "true_type", "false_type">>,
         <<check, ext, true, false>>)
TSTypeLiteral(member) ==
    Node("TSTypeLiteral", "", FALSE, FALSE, "", <<"members">>, <<member>>)
TSMethodSignature(ret) ==
    Node("TSMethodSignature", "", FALSE, FALSE, "", <<"return_type">>, <<ret>>)
TSConstructSignatureDeclaration(ret) ==
    Node("TSConstructSignatureDeclaration", "", FALSE, FALSE, "",
         <<"return_type">>, <<ret>>)
TSMappedType(type) ==
    Node("TSMappedType", "", FALSE, FALSE, "", <<"type_annotation">>, <<type>>)

\* ------------------------------------------------------ input initializers

\* The type of `x as T`: every type that owns a scope, at the first level
\* and below it.  A type names a value through an identifier reference
\* (`typeof C`), modelled by the reference itself.
Type ==
    TSConditionalType(
        TSConditionalType(Ident("other"), Ident("class"), Ident("other"), Ident("other")),
        TSMappedType(Ident("class")),
        TSTypeLiteral(TSConstructSignatureDeclaration(Ident("other"))),
        TSTypeLiteral(TSMethodSignature(TSMappedType(Ident("class")))))

\* Expressions with no generated sub-expression.
Leaves ==
    { This,
      StaticMember(This),
      Unary("delete", This),
      Unary("void", This),
      Ident("class"),
      Sequence(StaticMember(Super), Update(MemberTarget(Super))),
      TSAs(Ident(""), Type) }

\* Every construct the visitor treats specially, around a sub-expression e.
Wrap(e) ==
    { Function(FALSE, TSModuleBlock(FALSE, Block(e))),
      Function(TRUE, e),
      Function(FALSE, TSModuleBlock(TRUE, e)),
      Arrow(FALSE, e),
      Arrow(TRUE, e),
      Class(PropertyDefinition(TRUE,
                               <<"decorators", "key", "value", "type_annotation">>,
                               <<Ident("class"), This, e, Ident("class")>>)),
      Class(AccessorProperty(TRUE, <<"key", "value">>, <<e, This>>)),
      Class(StaticBlock(e)),
      Call(StaticMember(Super), e),
      Assignment(MemberTarget(Super), ComputedMember(Super, e)) }

RECURSIVE Expressions(_)
Expressions(d) ==
    IF d = 0 THEN Leaves
    ELSE LET inner == Expressions(d - 1)
         IN  inner \cup UNION { Wrap(e) : e \in inner }

\* What follows the generated expression in every initializer: it shows
\* whether the traversal state was restored after the first operand.
Probe == Arrow(FALSE, Sequence(This, Ident("class")))

\* The first static initializer of the class.
FirstInitializers == { Sequence(e, Probe) : e \in Expressions(MaxDepth) }

\* The second static initializer of the same class.
SecondInitializer ==
    Sequence(Unary("delete", This), Sequence(This, Ident("class")))

\* ---------------------------------------------------------------- numbering

RECURSIVE Size(_)
RECURSIVE SizeUpTo(_, _)
\* Number of nodes of the first k children of t.
SizeUpTo(t, k) == IF k = 0 THEN 0 ELSE SizeUpTo(t, k - 1) + Size(t.kids[k])
Size(t) == 1 + SizeUpTo(t, Len(t.kids))

RECURSIVE Flatten(_, _)
RECURSIVE FlattenKids(_, _, _)
\* The nodes of t in preorder, t itself numbered `id`; a child is named by
\* its number.  Spans are the node numbers, and so are the reference ids of
\* the identifier references.
Flatten(t, id) ==
    <<[kind |-> t.kind, op |-> t.op, strict |-> t.strict, computed |-> t.computed,
       name |-> IF t.kind = "IdentifierReference"
                THEN (IF t.sym = "class" THEN "C" ELSE IF t.sym = "other" THEN "x" ELSE "g")
                ELSE "",
       sym |-> t.sym,
       ref |-> IF t.kind = "IdentifierReference" THEN id ELSE 0,
       span |-> id,
       roles |-> t.roles,
       kids |-> [i \in 1..Len(t.kids) |-> id + 1 + SizeUpTo(t, i - 1)]]>>
    \o FlattenKids(t, id, 1)
FlattenKids(t, id, i) ==
    IF i > Len(t.kids) THEN <<>>
    ELSE Flatten(t.kids[i], id + 1 + SizeUpTo(t, i - 1)) \o FlattenKids(t, id, i + 1)


\* ------------------------------------------------------------------- state

\* `ctx.current_scope_id()`: the scope the class sits in, where the
\* initializer is moved to.
CurrentScopeId == 0
\* The scope of the class whose static initializers are transformed.
ClassScopeId == 0 - 1
\* `reference.symbol_id()` of an unresolved reference.
NoSymbol == 0
\* `class_details.bindings.name_symbol_id()` of a named class.
ClassNameSymbol == 1
\* Some other binding the initializers refer to.
OtherSymbol == 2

VARIABLES
    ast,                  \* the initializers' nodes, by node number
    roots,                \* the root node of each static initializer
    started,              \* how many initializers the driver has handed over
    stack,                \* the visitor's pending work, innermost first
    walk_deep,            \* StaticInitializerVisitor fields
    make_sloppy_mode,
    this_depth,
    scope_depth,
    scope_parent,         \* scope tree: parent of each scope
    scope_flags,          \* scope tree: flags of each scope
    references,           \* symbol table: what each reference resolves to
    resolved_references,  \* symbol table: the references listed by each symbol
    next_reference,       \* next unused reference id
    name_binding,         \* class bindings: symbol of the class name, or NoSymbol
    static_binding,       \* class bindings: the temp binding, once created
    orig,                 \* history: the nodes as they were before the pass
    lex,                  \* history: where each of those nodes lies lexically
    requested,            \* history: the nodes the temp binding was requested for
    visited,              \* history: the nodes visited so far
    entered,              \* history: the scopes `enter_scope` was called for
    temp_symbols,         \* history: every temp symbol ever created
    delegate_log,         \* history: the driver delegates invoked, in order
    exit_check            \* history: traversal state on entry to and exit from
                          \* the node whose visit ended last

inputVars == <<roots, name_binding, orig, lex>>
visitorVars == <<walk_deep, make_sloppy_mode, this_depth, scope_depth>>
scopeVars == <<scope_parent, scope_flags>>
symbolVars == <<references, resolved_references, next_reference, static_binding,
                temp_symbols, requested>>
vars == <<ast, started, stack, inputVars, visitorVars, scopeVars, symbolVars,
          visited, entered, delegate_log, exit_check>>

NoBinding == [symbol_id |-> NoSymbol, name |-> ""]

Nodes == 1..Len(orig)

\* ------------------------------------------------- structure of the input

\* Kinds of node that own a scope.
ScopeKinds ==
    {"Function", "ArrowFunctionExpression", "Class", "StaticBlock", "BlockStatement",
     "TSConditionalType", "TSMethodSignature", "TSConstructSignatureDeclaration",
     "TSMappedType"}

\* Whether the scope of a node of `kind` covers its child in field `role`:
\* the check and false types of a conditional type lie outside its scope.
Covers(kind, role) ==
    /\ kind \in ScopeKinds
    /\ kind = "TSConditionalType" => role \in {"extends_type", "true_type"}

\* Constructs inside which `this` is not the `this` of the class: ordinary
\* functions, static blocks, module blocks, and the value of a property or
\* accessor definition.
ThisBoundary(kind, role) ==
    \/ kind \in {"Function", "StaticBlock", "TSModuleBlock"}
    \/ kind \in {"PropertyDefinition", "AccessorProperty"} /\ role = "value"

\* Constructs that are strict mode whatever surrounds them: a class, and a
\* function, arrow function or module block with a "use strict" directive.
StrictConstruct(t) ==
    \/ t.kind = "Class"
    \/ t.kind \in {"Function", "ArrowFunctionExpression", "TSModuleBlock"} /\ t.strict

RECURSIVE Lexical(_, _, _)
RECURSIVE LexicalKids(_, _, _, _)
\* The lexical position of every node of t, in the order of Flatten, t itself
\* numbered `id` and lying at `at`: its parent node (0 for a root) and field,
\* how many `this` boundaries of the initializer enclose it, the scope it lies
\* in as semantic analysis recorded it, and whether it is a strict construct
\* or lies inside one.
Lexical(t, id, at) ==
    <<[at EXCEPT !.strict = @ \/ StrictConstruct(t)]>>
    \o LexicalKids(t, id, [at EXCEPT !.strict = @ \/ StrictConstruct(t)], 1)
LexicalKids(t, id, at, i) ==
    IF i > Len(t.kids) THEN <<>>
    ELSE Lexical(t.kids[i], id + 1 + SizeUpTo(t, i - 1),
                 [parent |-> id,
                  role |-> t.roles[i],
                  this_depth |-> at.this_depth
                                 + (IF ThisBoundary(t.kind, t.roles[i]) THEN 1 ELSE 0),
                  scope |-> IF Covers(t.kind, t.roles[i]) THEN id ELSE at.scope,
                  strict |-> at.strict])
         \o LexicalKids(t, id, at, i + 1)

\* Where the root of a static initializer lies: directly in the class.
AtRoot == [parent |-> 0, role |-> "", this_depth |-> 0, scope |-> ClassScopeId,
           strict |-> FALSE]

ScopeNodes(a) == { n \in 1..Len(a) : a[n].kind \in ScopeKinds }

\* The kind-specific flag of a scope, beside StrictMode.
KindFlag(kind) ==
    CASE kind = "Function" -> {"Function"}
      [] kind = "ArrowFunctionExpression" -> {"Function", "Arrow"}
      [] kind = "StaticBlock" -> {"ClassStaticBlock"}
      [] OTHER -> {}

\* ------------------------------------------------------------------- Init

InitialSymbol(node) ==
    IF node.sym = "class" THEN ClassNameSymbol
    ELSE IF node.sym = "other" THEN OtherSymbol
    ELSE NoSymbol

\* The state before the first static initializer of a class is transformed:
\* the trees as parsed, and the scope tree and symbol table as semantic
\* analysis built them.  Every scope inside a class body is strict.
InitFor(first, named, strict) ==
    /\ orig = Flatten(first, 1) \o Flatten(SecondInitializer, 1 + Size(first))
    /\ ast = orig
    /\ lex = Lexical(first, 1, AtRoot)
             \o Lexical(SecondInitializer, 1 + Size(first), AtRoot)
    /\ roots = <<1, 1 + Size(first)>>
    /\ name_binding = IF named THEN ClassNameSymbol ELSE NoSymbol
    /\ started = 0
    /\ stack = <<>>
    /\ walk_deep = FALSE
    /\ make_sloppy_mode = FALSE
    /\ this_depth = 0
    /\ scope_depth = 0
    /\ scope_parent =
         [s \in ScopeNodes(orig) \cup {ClassScopeId} |->
            IF s = ClassScopeId THEN CurrentScopeId ELSE lex[s].scope]
    /\ scope_flags =
         [s \in ScopeNodes(orig) \cup {ClassScopeId, CurrentScopeId} |->
            IF s = CurrentScopeId THEN (IF strict THEN {"StrictMode", "Top"} ELSE {"Top"})
            ELSE IF s = ClassScopeId THEN {"StrictMode"}
            ELSE {"StrictMode"} \cup KindFlag(orig[s].kind)]
    \* In an unnamed class nothing resolves to a class name.
    /\ references =
         [n \in { m \in Nodes : orig[m].kind = "IdentifierReference" } |->
            IF orig[n].sym = "class" /\ ~named THEN OtherSymbol
            ELSE InitialSymbol(orig[n])]
    /\ resolved_references =
         [s \in (IF named THEN {ClassNameSymbol} ELSE {}) \cup {OtherSymbol} |->
            SelectSeq([n \in Nodes |-> n],
                      LAMBDA n : n \in DOMAIN references /\ references[n] = s)]
    /\ next_reference = Len(orig) + 1
    /\ static_binding = NoBinding
    /\ temp_symbols = {}
    /\ requested = {}
    /\ visited = {}
    /\ entered = {}
    /\ delegate_log = <<>>
    /\ exit_check = [n |-> 0, entry |-> <<0, 0, FALSE>>, exit |-> <<0, 0, FALSE>>]

Init ==
    \E first \in FirstInitializers, named \in BOOLEAN, strict \in BOOLEAN :
        InitFor(first, named, strict)


\* ------------------------------------------------------------ work stack

Top == Head(stack)
Rest == Tail(stack)

\* The traversal state a visitor method sees on entry.
Now == <<this_depth, scope_depth, make_sloppy_mode>>

Task(op, n, parent_sloppy_mode, entry) ==
    [op |-> op, n |-> n, parent_sloppy_mode |-> parent_sloppy_mode, entry |-> entry]

\* A pending call of the visitor method for node n.
VisitTask(n) == Task("visit", n, FALSE, <<0, 0, FALSE>>)

\* Pending visits of nodes ns, in order.
Visits(ns) == [i \in 1..Len(ns) |-> VisitTask(ns[i])]

\* The visitor is about to visit a node of one of `kinds`.
Visiting(kinds) ==
    /\ stack # <<>>
    /\ Top.op = "visit"
    /\ ast[Top.n].kind \in kinds

\* The visitor is about to run the code named `op` that follows a walk.
Resuming(op) ==
    /\ stack # <<>>
    /\ Top.op = op

\* The children of n in the fields `roles`, in field order.
KidsIn(a, n, roles) ==
    LET idx == SelectSeq([i \in 1..Len(a[n].kids) |-> i],
                         LAMBDA i : a[n].roles[i] \in roles)
    IN  [j \in 1..Len(idx) |-> a[n].kids[idx[j]]]

\* `+= 1` and `-= 1` on a `u32` counter.  A counter value is written as its
\* residue nearest zero, so -1 is what a decrement of 0 wraps to (u32::MAX);
\* no traversal of a tree this size comes near the upper end.
Inc(x) == x + 1
Dec(x) == x - 1

\* ------------------------------------------------- scope tree, symbol table

\* `scopes_mut().change_parent_id(scope_id, Some(parent))`.
ChangeParentId(parents, scope_id, parent) == [parents EXCEPT ![scope_id] = parent]

\* `*get_flags_mut(scope_id) -= ScopeFlags::StrictMode`.
ClearStrictMode(flags, scope_id) == [flags EXCEPT ![scope_id] = @ \ {"StrictMode"}]

\* `symbols.delete_resolved_reference(symbol_id, reference_id)`.
DeleteResolvedReference(resolved, symbol_id, reference_id) ==
    [resolved EXCEPT ![symbol_id] = SelectSeq(@, LAMBDA r : r # reference_id)]

\* `symbols.add_resolved_reference(symbol_id, reference_id)`.
AddResolvedReference(resolved, symbol_id, reference_id) ==
    IF symbol_id \in DOMAIN resolved
    THEN [resolved EXCEPT ![symbol_id] = Append(@, reference_id)]
    ELSE resolved @@ (symbol_id :> <<reference_id>>)

\* `bindings.get_or_init_static_binding(ctx)`: the temp binding of the class,
\* created with a fresh symbol on first demand and kept from then on.
GetOrInitStaticBinding(binding, created) ==
    IF binding # NoBinding THEN binding
    ELSE [symbol_id |-> OtherSymbol + 1 + Cardinality(created), name |-> "_C"]

\* `temp_binding.create_spanned_read_expression(span, ctx)`: an identifier
\* reference reading the temp binding, with a new reference bound to it.
CreateSpannedReadExpression(temp_binding, span, reference_id) ==
    [kind |-> "IdentifierReference", op |-> "", strict |-> FALSE, computed |-> FALSE,
     name |-> temp_binding.name, sym |-> "", ref |-> reference_id, span |-> span,
     roles |-> <<>>, kids |-> <<>>]

\* `ctx.ast.expression_boolean_literal(span, true)`.
ExpressionBooleanLiteral(span, value) ==
    [kind |-> "BooleanLiteral", op |-> "", strict |-> FALSE, computed |-> FALSE,
     name |-> IF value THEN "true" ELSE "false", sym |-> "", ref |-> 0, span |-> span,
     roles |-> <<>>, kids |-> <<>>]

\* ------------------------------------------------------ visitor's helpers

\* enter_scope without its `make_sloppy_mode` test.
EnterScope_AlwaysSloppy(sloppy, flags, scope_id) ==
    ClearStrictMode(flags, scope_id)

\* fn enter_scope
EnterScope(sloppy, flags, scope_id) ==
    IF sloppy THEN ClearStrictMode(flags, scope_id) ELSE flags

\* reparent_scope_if_first_level without its `scope_depth == 0` test.
ReparentScopeIfFirstLevel_AnyLevel(parents, scope_id) ==
    ChangeParentId(parents, scope_id, CurrentScopeId)

\* fn reparent_scope_if_first_level
ReparentScopeIfFirstLevel(parents, scope_id) ==
    IF scope_depth = 0
    THEN ChangeParentId(parents, scope_id, CurrentScopeId)
    ELSE parents

\* replace_this_with_temp_var without its `this_depth == 0` test.
ReplaceThisWithTempVar_AnyDepth(n, span) ==
    LET temp_binding == GetOrInitStaticBinding(static_binding, temp_symbols)
    IN  /\ static_binding' = temp_binding
        /\ temp_symbols' = temp_symbols \cup {temp_binding.symbol_id}
        /\ requested' = requested \cup {n}
        /\ ast' = [ast EXCEPT ![n] =
                     CreateSpannedReadExpression(temp_binding, span, next_reference)]
        /\ references' = (next_reference :> temp_binding.symbol_id) @@ references
        /\ resolved_references' =
             AddResolvedReference(resolved_references, temp_binding.symbol_id,
                                  next_reference)
        /\ next_reference' = next_reference + 1

\* fn replace_this_with_temp_var
ReplaceThisWithTempVar(n, span) ==
    IF this_depth = 0
    THEN LET temp_binding == GetOrInitStaticBinding(static_binding, temp_symbols)
         IN  /\ static_binding' = temp_binding
             /\ temp_symbols' = temp_symbols \cup {temp_binding.symbol_id}
             /\ requested' = requested \cup {n}
             /\ ast' = [ast EXCEPT ![n] =
                          CreateSpannedReadExpression(temp_binding, span, next_reference)]
             /\ references' = (next_reference :> temp_binding.symbol_id) @@ references
             /\ resolved_references' =
                  AddResolvedReference(resolved_references, temp_binding.symbol_id,
                                       next_reference)
             /\ next_reference' = next_reference + 1
    ELSE UNCHANGED <<ast, symbolVars>>

\* replace_class_name_with_temp_var making a binding of its own instead of
\* asking the class for the one it may already have.
ReplaceClassNameWithTempVar_OwnBinding(n) ==
    LET class_name_symbol_id == name_binding
        reference_id == ast[n].ref
        symbol_id == references[reference_id]
    IN  IF \/ class_name_symbol_id = NoSymbol
           \/ symbol_id = NoSymbol
           \/ symbol_id # class_name_symbol_id
        THEN UNCHANGED <<ast, symbolVars>>
        ELSE LET temp_binding == GetOrInitStaticBinding(NoBinding, temp_symbols)
             IN  /\ static_binding' = temp_binding
                 /\ temp_symbols' = temp_symbols \cup {temp_binding.symbol_id}
                 /\ requested' = requested \cup {n}
                 /\ ast' = [ast EXCEPT ![n].name = temp_binding.name]
                 /\ references' =
                      [references EXCEPT ![reference_id] = temp_binding.symbol_id]
                 /\ resolved_references' =
                      AddResolvedReference(
                          DeleteResolvedReference(resolved_references, symbol_id,
                                                  reference_id),
                          temp_binding.symbol_id, reference_id)
                 /\ UNCHANGED next_reference

\* fn replace_class_name_with_temp_var
ReplaceClassNameWithTempVar(n) ==
    LET class_name_symbol_id == name_binding
        reference_id == ast[n].ref
        symbol_id == references[reference_id]
    IN  IF \/ class_name_symbol_id = NoSymbol
           \/ symbol_id = NoSymbol
           \/ symbol_id # class_name_symbol_id
        THEN UNCHANGED <<ast, symbolVars>>
        ELSE LET temp_binding == GetOrInitStaticBinding(static_binding, temp_symbols)
             IN  /\ static_binding' = temp_binding
                 /\ temp_symbols' = temp_symbols \cup {temp_binding.symbol_id}
                 /\ requested' = requested \cup {n}
                 /\ ast' = [ast EXCEPT ![n].name = temp_binding.name]
                 /\ references' =
                      [references EXCEPT ![reference_id] = temp_binding.symbol_id]
                 /\ resolved_references' =
                      AddResolvedReference(
                          DeleteResolvedReference(resolved_references, symbol_id,
                                                  reference_id),
                          temp_binding.symbol_id, reference_id)
                 /\ UNCHANGED next_reference

\* replace_delete_this_with_true without its `this_depth == 0` test.
ReplaceDeleteThisWithTrue_AnyDepth(n, span) ==
    ast' = [ast EXCEPT ![n] = ExpressionBooleanLiteral(span, TRUE)]

\* fn replace_delete_this_with_true
ReplaceDeleteThisWithTrue(n, span) ==
    IF this_depth = 0
    THEN ast' = [ast EXCEPT ![n] = ExpressionBooleanLiteral(span, TRUE)]
    ELSE UNCHANGED ast


\* ------------------------------------------------------- driver delegates

\* Whether node m of a is a member expression on `super`.
IsSuperMember(a, m) ==
    /\ a[m].kind \in {"StaticMemberExpression", "ComputedMemberExpression", "MemberTarget"}
    /\ a[a[m].kids[1]].kind = "Super"

\* What a delegate leaves in place of a `super` form: a call of a helper of
\* the driver, holding the sub-expressions `kids` of the form it replaces.
SuperHelperCall(node, kids) ==
    [node EXCEPT !.kind = "SuperHelperCall",
                 !.roles = [i \in 1..Len(kids) |-> "arguments"],
                 !.kids = kids]

\* `class_properties.transform_static_member_expression(expr, ctx)`
TransformStaticMemberExpression(a, n) ==
    IF IsSuperMember(a, n) THEN [a EXCEPT ![n] = SuperHelperCall(@, <<>>)] ELSE a

\* `class_properties.transform_computed_member_expression(expr, ctx)`
TransformComputedMemberExpression(a, n) ==
    IF IsSuperMember(a, n)
    THEN [a EXCEPT ![n] = SuperHelperCall(@, KidsIn(a, n, {"expression"}))]
    ELSE a

\* `class_properties.transform_call_expression_for_super_member_expr(call_expr, ctx)`
TransformCallExpressionForSuperMemberExpr(a, n) ==
    LET callee == a[n].kids[1]
    IN  IF IsSuperMember(a, callee)
        THEN [a EXCEPT ![n] =
                SuperHelperCall(@, KidsIn(a, callee, {"expression"})
                                   \o KidsIn(a, n, {"arguments"}))]
        ELSE a

\* `class_properties.transform_assignment_expression_for_super_assignment_target(expr, ctx)`
TransformAssignmentExpressionForSuperAssignmentTarget(a, n) ==
    LET left == a[n].kids[1]
    IN  IF IsSuperMember(a, left)
        THEN [a EXCEPT ![n] =
                SuperHelperCall(@, KidsIn(a, left, {"expression"})
                                   \o KidsIn(a, n, {"right"}))]
        ELSE a

\* `class_properties.transform_update_expression_for_super_assignment_target(expr, ctx)`
TransformUpdateExpressionForSuperAssignmentTarget(a, n) ==
    LET argument == a[n].kids[1]
    IN  IF IsSuperMember(a, argument)
        THEN [a EXCEPT ![n] = SuperHelperCall(@, KidsIn(a, argument, {"expression"}))]
        ELSE a

\* The record of one delegate call: which delegate, on which node, and
\* whether a child of the node had been visited by then.
Invoked(delegate, n) ==
    Append(delegate_log,
           [delegate |-> delegate, n |-> n,
            this_depth |-> this_depth,
            walked |-> \E i \in 1..Len(orig[n].kids) : orig[n].kids[i] \in visited])

\* fn transform_static_member_expression_if_super
TransformStaticMemberExpressionIfSuper(n) ==
    IF this_depth = 0
    THEN /\ ast' = TransformStaticMemberExpression(ast, n)
         /\ delegate_log' = Invoked("transform_static_member_expression", n)
    ELSE UNCHANGED <<ast, delegate_log>>

\* fn transform_computed_member_expression_if_super
TransformComputedMemberExpressionIfSuper(n) ==
    IF this_depth = 0
    THEN /\ ast' = TransformComputedMemberExpression(ast, n)
         /\ delegate_log' = Invoked("transform_computed_member_expression", n)
    ELSE UNCHANGED <<ast, delegate_log>>

\* transform_call_expression_if_super_member_expression without its
\* `this_depth == 0` test.
TransformCallExpressionIfSuperMemberExpression_AnyDepth(n) ==
    /\ ast' = TransformCallExpressionForSuperMemberExpr(ast, n)
    /\ delegate_log' = Invoked("transform_call_expression_for_super_member_expr", n)

\* fn transform_call_expression_if_super_member_expression
TransformCallExpressionIfSuperMemberExpression(n) ==
    IF this_depth = 0
    THEN /\ ast' = TransformCallExpressionForSuperMemberExpr(ast, n)
         /\ delegate_log' = Invoked("transform_call_expression_for_super_member_expr", n)
    ELSE UNCHANGED <<ast, delegate_log>>

\* fn transform_assignment_expression_if_super_member_assignment_target
TransformAssignmentExpressionIfSuperMemberAssignmentTarget(n) ==
    IF this_depth = 0
    THEN /\ ast' = TransformAssignmentExpressionForSuperAssignmentTarget(ast, n)
         /\ delegate_log' =
              Invoked("transform_assignment_expression_for_super_assignment_target", n)
    ELSE UNCHANGED <<ast, delegate_log>>

\* fn transform_update_expression_if_super_member_assignment_target
TransformUpdateExpressionIfSuperMemberAssignmentTarget(n) ==
    IF this_depth = 0
    THEN /\ ast' = TransformUpdateExpressionForSuperAssignmentTarget(ast, n)
         /\ delegate_log' =
              Invoked("transform_update_expression_for_super_assignment_target", n)
    ELSE UNCHANGED <<ast, delegate_log>>

\* ------------------------------------------------------------------ driver

\* fn StaticInitializerVisitor::new
New ==
    LET sloppy == "StrictMode" \notin scope_flags[CurrentScopeId]
    IN  /\ make_sloppy_mode' = sloppy
        /\ walk_deep' = (sloppy \/ name_binding # NoSymbol)
        /\ this_depth' = 0
        /\ scope_depth' = 0

\* fn transform_static_initializer: the driver hands the next static
\* initializer of the class to a new visitor.
transform_static_initializer ==
    /\ stack = <<>>
    /\ started < Len(roots)
    /\ New
    /\ started' = started + 1
    /\ stack' = <<VisitTask(roots[started + 1])>>
    /\ UNCHANGED <<ast, inputVars, scopeVars, symbolVars, visited, entered,
                   delegate_log, exit_check>>

\* ----------------------------------------------------- fn visit_expression

\* `Expression::ThisExpression`
visit_expression_this ==
    /\ Visiting({"ThisExpression"})
    /\ ReplaceThisWithTempVar(Top.n, ast[Top.n].span)
    /\ stack' = Rest
    /\ visited' = visited \cup {Top.n}
    /\ UNCHANGED <<started, inputVars, visitorVars, scopeVars, entered, delegate_log,
                   exit_check>>

\* `delete this`: the match guard of the `UnaryExpression` arm.
IsDeleteThis(a, n) ==
    /\ a[n].op = "delete"
    /\ a[a[n].kids[1]].kind = "ThisExpression"

\* `Expression::UnaryExpression`
visit_expression_unary ==
    /\ Visiting({"UnaryExpression"})
    /\ IF IsDeleteThis(ast, Top.n)
       THEN /\ ReplaceDeleteThisWithTrue(Top.n, ast[Top.n].span)
            /\ stack' = Rest
       ELSE /\ UNCHANGED ast
            /\ stack' = Visits(ast[Top.n].kids) \o Rest
    /\ visited' = visited \cup {Top.n}
    /\ UNCHANGED <<started, inputVars, visitorVars, scopeVars, symbolVars, entered,
                   delegate_log, exit_check>>

\* `walk_mut::walk_expression` of what a delegate left of the expression.
WalkExpression ==
    /\ stack' = Visits(ast'[Top.n].kids) \o Rest
    /\ visited' = visited \cup {Top.n}
    /\ UNCHANGED <<started, inputVars, visitorVars, scopeVars, symbolVars, entered,
                   exit_check>>

\* `Expression::StaticMemberExpression`
visit_expression_static_member ==
    /\ Visiting({"StaticMemberExpression"})
    /\ TransformStaticMemberExpressionIfSuper(Top.n)
    /\ WalkExpression

\* `Expression::ComputedMemberExpression`
visit_expression_computed_member ==
    /\ Visiting({"ComputedMemberExpression"})
    /\ TransformComputedMemberExpressionIfSuper(Top.n)
    /\ WalkExpression

\* `Expression::CallExpression`
visit_expression_call ==
    /\ Visiting({"CallExpression"})
    /\ TransformCallExpressionIfSuperMemberExpression(Top.n)
    /\ WalkExpression

\* `Expression::AssignmentExpression`
visit_expression_assignment ==
    /\ Visiting({"AssignmentExpression"})
    /\ TransformAssignmentExpressionIfSuperMemberAssignmentTarget(Top.n)
    /\ WalkExpression

\* `Expression::UpdateExpression`
visit_expression_update ==
    /\ Visiting({"UpdateExpression"})
    /\ TransformUpdateExpressionIfSuperMemberAssignmentTarget(Top.n)
    /\ WalkExpression

\* fn visit_identifier_reference
visit_identifier_reference ==
    /\ Visiting({"IdentifierReference"})
    /\ ReplaceClassNameWithTempVar(Top.n)
    /\ stack' = Rest
    /\ visited' = visited \cup {Top.n}
    /\ UNCHANGED <<started, inputVars, visitorVars, scopeVars, entered, delegate_log,
                   exit_check>>


\* ------------------------------------------- constructs with bespoke visits

\* `scope_id.get().unwrap()`: scopes are numbered like the nodes that own them.
ScopeIdOf(n) == n

\* `has_use_strict_directive()`
HasUseStrictDirective(n) == ast[n].strict

\* The same with the "use strict" directive of the construct overlooked.
SloppyWithin_DirectiveIgnored(n) == make_sloppy_mode

\* `make_sloppy_mode` while the construct n is traversed: switched off by a
\* "use strict" directive of its own.
SloppyWithin(n) ==
    IF make_sloppy_mode /\ HasUseStrictDirective(n) THEN FALSE ELSE make_sloppy_mode

\* The traversal state on entry to and on exit from the visit of node n.
Exited(n, entry, exit) == [n |-> n, entry |-> entry, exit |-> exit]

\* fn visit_function, up to and including the start of `walk_function`
\* (which enters the function's scope); all of it when `walk_deep` is false.
visit_function ==
    /\ Visiting({"Function"})
    /\ LET n == Top.n
           parent_sloppy_mode == make_sloppy_mode
       IN  /\ scope_parent' = ReparentScopeIfFirstLevel(scope_parent, ScopeIdOf(n))
           /\ IF walk_deep
              THEN /\ make_sloppy_mode' = SloppyWithin(n)
                   /\ this_depth' = Inc(this_depth)
                   /\ scope_depth' = Inc(scope_depth)
                   /\ scope_flags' = EnterScope(SloppyWithin(n), scope_flags, ScopeIdOf(n))
                   /\ entered' = entered \cup {ScopeIdOf(n)}
                   /\ stack' = Visits(ast[n].kids)
                               \o <<Task("exit_function", n, parent_sloppy_mode, Now)>>
                               \o Rest
                   /\ UNCHANGED exit_check
              ELSE /\ make_sloppy_mode' = parent_sloppy_mode
                   /\ stack' = Rest
                   /\ exit_check' = Exited(n, Now, <<this_depth, scope_depth,
                                                     parent_sloppy_mode>>)
                   /\ UNCHANGED <<this_depth, scope_depth, scope_flags, entered>>
           /\ visited' = visited \cup {n}
    /\ UNCHANGED <<ast, started, inputVars, walk_deep, symbolVars, delegate_log>>

\* fn visit_function, after `walk_function`
exit_function ==
    /\ Resuming("exit_function")
    /\ this_depth' = Dec(this_depth)
    /\ scope_depth' = Dec(scope_depth)
    /\ make_sloppy_mode' = Top.parent_sloppy_mode
    /\ exit_check' = Exited(Top.n, Top.entry,
                            <<this_depth', scope_depth', make_sloppy_mode'>>)
    /\ stack' = Rest
    /\ UNCHANGED <<ast, started, inputVars, walk_deep, scopeVars, symbolVars, visited,
                   entered, delegate_log>>

\* fn visit_arrow_function_expression, up to and including the start of
\* `walk_arrow_function_expression` (which enters the arrow's scope)
visit_arrow_function_expression ==
    /\ Visiting({"ArrowFunctionExpression"})
    /\ LET n == Top.n
           parent_sloppy_mode == make_sloppy_mode
       IN  /\ make_sloppy_mode' = SloppyWithin(n)
           /\ scope_parent' = ReparentScopeIfFirstLevel(scope_parent, ScopeIdOf(n))
           /\ scope_depth' = Inc(scope_depth)
           /\ scope_flags' = EnterScope(SloppyWithin(n), scope_flags, ScopeIdOf(n))
           /\ entered' = entered \cup {ScopeIdOf(n)}
           /\ stack' = Visits(ast[n].kids)
                       \o <<Task("exit_arrow_function_expression", n,
                                 parent_sloppy_mode, Now)>>
                       \o Rest
           /\ visited' = visited \cup {n}
    /\ UNCHANGED <<ast, started, inputVars, walk_deep, this_depth, symbolVars,
                   delegate_log, exit_check>>

\* The same without `self.make_sloppy_mode = parent_sloppy_mode`.
exit_arrow_function_expression_NoRestore ==
    /\ Resuming("exit_arrow_function_expression")
    /\ scope_depth' = Dec(scope_depth)
    /\ exit_check' = Exited(Top.n, Top.entry,
                            <<this_depth, scope_depth', make_sloppy_mode>>)
    /\ stack' = Rest
    /\ UNCHANGED <<ast, started, inputVars, walk_deep, make_sloppy_mode, this_depth,
                   scopeVars, symbolVars, visited, entered, delegate_log>>

\* fn visit_arrow_function_expression, after the walk
exit_arrow_function_expression ==
    /\ Resuming("exit_arrow_function_expression")
    /\ scope_depth' = Dec(scope_depth)
    /\ make_sloppy_mode' = Top.parent_sloppy_mode
    /\ exit_check' = Exited(Top.n, Top.entry,
                            <<this_depth, scope_depth', make_sloppy_mode'>>)
    /\ stack' = Rest
    /\ UNCHANGED <<ast, started, inputVars, walk_deep, this_depth, scopeVars,
                   symbolVars, visited, entered, delegate_log>>

\* fn visit_class, up to and including the start of `walk_class` (which
\* enters the class's scope)
visit_class ==
    /\ Visiting({"Class"})
    /\ LET n == Top.n
           parent_sloppy_mode == make_sloppy_mode
       IN  /\ make_sloppy_mode' = FALSE
           /\ scope_parent' = ReparentScopeIfFirstLevel(scope_parent, ScopeIdOf(n))
           /\ scope_depth' = Inc(scope_depth)
           /\ scope_flags' = EnterScope(FALSE, scope_flags, ScopeIdOf(n))
           /\ entered' = entered \cup {ScopeIdOf(n)}
           /\ stack' = Visits(ast[n].kids)
                       \o <<Task("exit_class", n, parent_sloppy_mode, Now)>>
                       \o Rest
           /\ visited' = visited \cup {n}
    /\ UNCHANGED <<ast, started, inputVars, walk_deep, this_depth, symbolVars,
                   delegate_log, exit_check>>

\* fn visit_class, after `walk_class`
exit_class ==
    /\ Resuming("exit_class")
    /\ scope_depth' = Dec(scope_depth)
    /\ make_sloppy_mode' = Top.parent_sloppy_mode
    /\ exit_check' = Exited(Top.n, Top.entry,
                            <<this_depth, scope_depth', make_sloppy_mode'>>)
    /\ stack' = Rest
    /\ UNCHANGED <<ast, started, inputVars, walk_deep, this_depth, scopeVars,
                   symbolVars, visited, entered, delegate_log>>

\* fn visit_static_block, up to and including the start of
\* `walk_static_block` (which enters the block's scope)
visit_static_block ==
    /\ Visiting({"StaticBlock"})
    /\ LET n == Top.n
       IN  /\ this_depth' = Inc(this_depth)
           /\ scope_flags' = EnterScope(make_sloppy_mode, scope_flags, ScopeIdOf(n))
           /\ entered' = entered \cup {ScopeIdOf(n)}
           /\ stack' = Visits(ast[n].kids)
                       \o <<Task("exit_static_block", n, make_sloppy_mode, Now)>>
                       \o Rest
           /\ visited' = visited \cup {n}
    /\ UNCHANGED <<ast, started, inputVars, walk_deep, make_sloppy_mode, scope_depth,
                   scope_parent, symbolVars, delegate_log, exit_check>>

\* fn visit_static_block, after `walk_static_block`
exit_static_block ==
    /\ Resuming("exit_static_block")
    /\ this_depth' = Dec(this_depth)
    /\ exit_check' = Exited(Top.n, Top.entry,
                            <<this_depth', scope_depth, make_sloppy_mode>>)
    /\ stack' = Rest
    /\ UNCHANGED <<ast, started, inputVars, walk_deep, make_sloppy_mode, scope_depth,
                   scopeVars, symbolVars, visited, entered, delegate_log>>

\* fn visit_ts_module_block, up to `walk_ts_module_block`; all of it when
\* `walk_deep` is false.
visit_ts_module_block ==
    /\ Visiting({"TSModuleBlock"})
    /\ LET n == Top.n
           parent_sloppy_mode == make_sloppy_mode
       IN  /\ IF walk_deep
              THEN /\ make_sloppy_mode' = SloppyWithin(n)
                   /\ this_depth' = Inc(this_depth)
                   /\ stack' = Visits(ast[n].kids)
                               \o <<Task("exit_ts_module_block", n,
                                         parent_sloppy_mode, Now)>>
                               \o Rest
                   /\ UNCHANGED exit_check
              ELSE /\ make_sloppy_mode' = parent_sloppy_mode
                   /\ stack' = Rest
                   /\ exit_check' = Exited(n, Now, <<this_depth, scope_depth,
                                                     parent_sloppy_mode>>)
                   /\ UNCHANGED this_depth
           /\ visited' = visited \cup {n}
    /\ UNCHANGED <<ast, started, inputVars, walk_deep, scope_depth, scopeVars,
                   symbolVars, entered, delegate_log>>

\* fn visit_ts_module_block, after `walk_ts_module_block`
exit_ts_module_block ==
    /\ Resuming("exit_ts_module_block")
    /\ this_depth' = Dec(this_depth)
    /\ make_sloppy_mode' = Top.parent_sloppy_mode
    /\ exit_check' = Exited(Top.n, Top.entry,
                            <<this_depth', scope_depth, make_sloppy_mode'>>)
    /\ stack' = Rest
    /\ UNCHANGED <<ast, started, inputVars, walk_deep, scope_depth, scopeVars,
                   symbolVars, visited, entered, delegate_log>>

\* What `visit_property_definition` and `visit_accessor_property` do in
\* order: the decorators, the key if it is computed, then the value one
\* `this` context deeper.  The type annotation is not visited.
PropertyTasks(n) ==
    Visits(KidsIn(ast, n, {"decorators"}))
    \o (IF ast[n].computed THEN Visits(KidsIn(ast, n, {"key"})) ELSE <<>>)
    \o (IF KidsIn(ast, n, {"value"}) # <<>>
        THEN <<Task("property_value", n, make_sloppy_mode, Now)>>
        ELSE <<>>)

\* fn visit_property_definition, up to `if let Some(value)`
visit_property_definition ==
    /\ Visiting({"PropertyDefinition"})
    /\ stack' = PropertyTasks(Top.n) \o Rest
    /\ visited' = visited \cup {Top.n}
    /\ UNCHANGED <<ast, started, inputVars, visitorVars, scopeVars, symbolVars, entered,
                   delegate_log, exit_check>>

\* fn visit_accessor_property, up to `if let Some(value)`
visit_accessor_property ==
    /\ Visiting({"AccessorProperty"})
    /\ stack' = PropertyTasks(Top.n) \o Rest
    /\ visited' = visited \cup {Top.n}
    /\ UNCHANGED <<ast, started, inputVars, visitorVars, scopeVars, symbolVars, entered,
                   delegate_log, exit_check>>

\* `self.this_depth += 1; self.visit_expression(value);` of both
visit_property_value ==
    /\ Resuming("property_value")
    /\ this_depth' = Inc(this_depth)
    /\ stack' = Visits(KidsIn(ast, Top.n, {"value"}))
                \o <<Task("exit_property_value", Top.n, make_sloppy_mode, Top.entry)>>
                \o Rest
    /\ UNCHANGED <<ast, started, inputVars, walk_deep, make_sloppy_mode, scope_depth,
                   scopeVars, symbolVars, visited, entered, delegate_log, exit_check>>

\* `self.this_depth -= 1;` of both
exit_property_value ==
    /\ Resuming("exit_property_value")
    /\ this_depth' = Dec(this_depth)
    /\ exit_check' = Exited(Top.n, Top.entry,
                            <<this_depth', scope_depth, make_sloppy_mode>>)
    /\ stack' = Rest
    /\ UNCHANGED <<ast, started, inputVars, walk_deep, make_sloppy_mode, scope_depth,
                   scopeVars, symbolVars, visited, entered, delegate_log>>

\* fn visit_ts_conditional_type, up to the visit of `check_type`
visit_ts_conditional_type ==
    /\ Visiting({"TSConditionalType"})
    /\ LET n == Top.n
       IN  /\ scope_parent' = ReparentScopeIfFirstLevel(scope_parent, ScopeIdOf(n))
           /\ stack' = Visits(KidsIn(ast, n, {"check_type"}))
                       \o <<Task("ts_conditional_scope", n, make_sloppy_mode, Now)>>
                       \o Visits(KidsIn(ast, n, {"false_type"}))
                       \o Rest
           /\ visited' = visited \cup {n}
    /\ UNCHANGED <<ast, started, inputVars, visitorVars, scope_flags, symbolVars,
                   entered, delegate_log, exit_check>>

\* fn visit_ts_conditional_type, from `self.enter_scope` to the visits of
\* `extends_type` and `true_type`
enter_ts_conditional_scope ==
    /\ Resuming("ts_conditional_scope")
    /\ LET n == Top.n
       IN  /\ scope_flags' = EnterScope(make_sloppy_mode, scope_flags, ScopeIdOf(n))
           /\ entered' = entered \cup {ScopeIdOf(n)}
           /\ scope_depth' = Inc(scope_depth)
           /\ stack' = Visits(KidsIn(ast, n, {"extends_type", "true_type"}))
                       \o <<Task("exit_ts_conditional_scope", n, make_sloppy_mode,
                                 Top.entry)>>
                       \o Rest
    /\ UNCHANGED <<ast, started, inputVars, walk_deep, make_sloppy_mode, this_depth,
                   scope_parent, symbolVars, visited, delegate_log, exit_check>>

\* fn visit_ts_conditional_type, `self.scope_depth -= 1;`
exit_ts_conditional_scope ==
    /\ Resuming("exit_ts_conditional_scope")
    /\ scope_depth' = Dec(scope_depth)
    /\ exit_check' = Exited(Top.n, Top.entry,
                            <<this_depth, scope_depth', make_sloppy_mode>>)
    /\ stack' = Rest
    /\ UNCHANGED <<ast, started, inputVars, walk_deep, make_sloppy_mode, this_depth,
                   scopeVars, symbolVars, visited, entered, delegate_log>>

\* The bodies of visit_ts_method_signature, visit_ts_construct_signature_declaration
\* and visit_ts_mapped_type, which differ in the node type alone: up to and
\* including the start of the walk (which enters the node's scope).
VisitTsScope(kind) ==
    /\ Visiting({kind})
    /\ LET n == Top.n
       IN  /\ scope_parent' = ReparentScopeIfFirstLevel(scope_parent, ScopeIdOf(n))
           /\ scope_depth' = Inc(scope_depth)
           /\ scope_flags' = EnterScope(make_sloppy_mode, scope_flags, ScopeIdOf(n))
           /\ entered' = entered \cup {ScopeIdOf(n)}
           /\ stack' = Visits(ast[n].kids)
                       \o <<Task("exit_ts_scope", n, make_sloppy_mode, Now)>>
                       \o Rest
           /\ visited' = visited \cup {n}
    /\ UNCHANGED <<ast, started, inputVars, walk_deep, make_sloppy_mode, this_depth,
                   symbolVars, delegate_log, exit_check>>

\* fn visit_ts_method_signature
visit_ts_method_signature == VisitTsScope("TSMethodSignature")

\* fn visit_ts_construct_signature_declaration
visit_ts_construct_signature_declaration ==
    VisitTsScope("TSConstructSignatureDeclaration")

\* fn visit_ts_mapped_type
visit_ts_mapped_type == VisitTsScope("TSMappedType")

\* `self.scope_depth -= 1;` of the three
exit_ts_scope ==
    /\ Resuming("exit_ts_scope")
    /\ scope_depth' = Dec(scope_depth)
    /\ exit_check' = Exited(Top.n, Top.entry,
                            <<this_depth, scope_depth', make_sloppy_mode>>)
    /\ stack' = Rest
    /\ UNCHANGED <<ast, started, inputVars, walk_deep, make_sloppy_mode, this_depth,
                   scopeVars, symbolVars, visited, entered, delegate_log>>

\* ------------------------------------------------ constructs walked as-is

\* The default visit of a block statement: `walk_block_statement` enters the
\* block's scope and visits the statements.
visit_block_statement ==
    /\ Visiting({"BlockStatement"})
    /\ scope_flags' = EnterScope(make_sloppy_mode, scope_flags, ScopeIdOf(Top.n))
    /\ entered' = entered \cup {ScopeIdOf(Top.n)}
    /\ stack' = Visits(ast[Top.n].kids) \o Rest
    /\ visited' = visited \cup {Top.n}
    /\ UNCHANGED <<ast, started, inputVars, visitorVars, scope_parent, symbolVars,
                   delegate_log, exit_check>>

\* Kinds with no scope that the visitor leaves to the default walk.
PlainKinds ==
    {"SequenceExpression", "TSAsExpression", "TSTypeLiteral", "MemberTarget", "Super"}

\* The default visit of any other node: its children, in order.
walk_mut ==
    /\ Visiting(PlainKinds)
    /\ stack' = Visits(ast[Top.n].kids) \o Rest
    /\ visited' = visited \cup {Top.n}
    /\ UNCHANGED <<ast, started, inputVars, visitorVars, scopeVars, symbolVars, entered,
                   delegate_log, exit_check>>

\* -------------------------------------------------------------------- Spec

Next ==
    \/ transform_static_initializer
    \/ visit_expression_this
    \/ visit_expression_unary
    \/ visit_expression_static_member
    \/ visit_expression_computed_member
    \/ visit_expression_call
    \/ visit_expression_assignment
    \/ visit_expression_update
    \/ visit_identifier_reference
    \/ visit_function
    \/ exit_function
    \/ visit_arrow_function_expression
    \/ exit_arrow_function_expression
    \/ visit_class
    \/ exit_class
    \/ visit_static_block
    \/ exit_static_block
    \/ visit_ts_module_block
    \/ exit_ts_module_block
    \/ visit_property_definition
    \/ visit_accessor_property
    \/ visit_property_value
    \/ exit_property_value
    \/ visit_ts_conditional_type
    \/ enter_ts_conditional_scope
    \/ exit_ts_conditional_scope
    \/ visit_ts_method_signature
    \/ visit_ts_construct_signature_declaration
    \/ visit_ts_mapped_type
    \/ exit_ts_scope
    \/ visit_block_statement
    \/ walk_mut

Spec == Init /\ [][Next]_vars


\* ---------------------------------------------------------------- claims

\* The static initializer node n belongs to.
InitializerOf(n) == IF n < roots[2] THEN 1 ELSE 2

\* The visitor run over static initializer i has returned.
Returned(i) == started > i \/ (started = i /\ stack = <<>>)

\* The visitor run over the initializer of node n has returned.
Finished(n) == Returned(InitializerOf(n))

\* Whether the scope enclosing the class is sloppy mode.
EnclosingSloppy == "StrictMode" \notin scope_flags[CurrentScopeId]

ThisNodes == { n \in Nodes : orig[n].kind = "ThisExpression" }

IdentNodes == { n \in Nodes : orig[n].kind = "IdentifierReference" }

\* The references of the input that resolved to the class name.
ClassNameReferences ==
    { n \in IdentNodes : name_binding # NoSymbol /\ orig[n].sym = "class" }

DeleteThisNodes ==
    { n \in Nodes : orig[n].kind = "UnaryExpression" /\ IsDeleteThis(orig, n) }

\* `this` as the operand of a `delete`.
IsDeleteArgument(n) ==
    /\ lex[n].parent # 0
    /\ orig[lex[n].parent].kind = "UnaryExpression"
    /\ orig[lex[n].parent].op = "delete"

\* Node n is now a read of the class temp binding, at the span it had.
ReadsTemp(n) ==
    /\ static_binding # NoBinding
    /\ ast[n].kind = "IdentifierReference"
    /\ ast[n].name = static_binding.name
    /\ ast[n].ref \in DOMAIN references
    /\ references[ast[n].ref] = static_binding.symbol_id
    /\ ast[n].span = orig[n].span

\* How often reference r is listed by symbol s.
Listed(s, r) ==
    IF s \in DOMAIN resolved_references
    THEN Cardinality({ i \in 1..Len(resolved_references[s]) :
                         resolved_references[s][i] = r })
    ELSE 0

\* C1 as stated: once the visitor has returned, a `this` of the initializer
\* has become a read of the class temp binding, at its span, if and only if
\* it was at this-depth 0.
C1_ThisRewrittenIffDepthZero_Original ==
    \A n \in ThisNodes :
        Finished(n) => (ReadsTemp(n) <=> lex[n].this_depth = 0)

\* C1 as amended: once the visitor has returned, a `this` of the initializer
\* has become a read of the class temp binding, at its span, if and only if
\* it was at this-depth 0 and is not the operand of a `delete`; every other
\* `this` is as it was.
C1_ThisRewrittenIffDepthZero ==
    \A n \in ThisNodes :
        Finished(n) =>
            /\ ReadsTemp(n) <=> (lex[n].this_depth = 0 /\ ~IsDeleteArgument(n))
            /\ ~ReadsTemp(n) => ast[n] = orig[n]

\* A `this` in an arrow function was rewritten and a `this` directly in an
\* ordinary function that was walked was not.
C1_Witness ==
    \E n, m \in ThisNodes :
        /\ Finished(n) /\ Finished(m)
        /\ lex[n].scope # ClassScopeId
        /\ orig[lex[n].scope].kind = "ArrowFunctionExpression"
        /\ lex[n].this_depth = 0
        /\ ReadsTemp(n)
        /\ orig[lex[m].parent].kind = "Function"
        /\ m \in visited
        /\ ast[m] = orig[m]

\* C2: in a named class, once the visitor has returned, every identifier
\* reference of the initializer that resolved to the class name is renamed
\* to the temp binding and resolves to the temp symbol, and every other
\* identifier reference is as it was.
C2_NoClassNameReferenceLeft ==
    name_binding # NoSymbol =>
        \A n \in IdentNodes :
            Finished(n) =>
                IF n \in ClassNameReferences
                THEN /\ static_binding # NoBinding
                     /\ references[n] = static_binding.symbol_id
                     /\ ast[n].name = static_binding.name
                ELSE /\ references[n] = InitialSymbol(orig[n])
                     /\ ast[n] = orig[n]

\* C3: over all the initializers of a class the temp binding is created at
\* most once: every request got the one symbol and name the class holds, and
\* nothing resolves to any other temp symbol.
C3_TempBindingCreatedOnce ==
    /\ Cardinality(temp_symbols) <= 1
    /\ static_binding # NoBinding => temp_symbols = {static_binding.symbol_id}
    /\ static_binding = NoBinding => temp_symbols = {} /\ requested = {}
    /\ \A r \in DOMAIN references :
          \/ references[r] \in {NoSymbol, ClassNameSymbol, OtherSymbol}
          \/ references[r] = static_binding.symbol_id
    /\ \A n \in requested :
          /\ ast[n].name = static_binding.name
          /\ references[ast[n].ref] = static_binding.symbol_id

\* Both initializers of the class asked for the temp binding, one for a
\* `this` and one for a reference to the class name.
C3_Witness ==
    /\ Returned(2)
    /\ \E n, m \in requested :
          /\ InitializerOf(n) = 1 /\ orig[n].kind = "IdentifierReference"
          /\ InitializerOf(m) = 2 /\ orig[m].kind = "ThisExpression"

\* C4: between any two node visits each reference is listed exactly once,
\* by the symbol it resolves to, and by no other symbol; and once the
\* visitor has returned, none of the initializer's references to the class
\* name is listed by the class name symbol and each is listed once by the
\* temp symbol.
C4_ReferenceSetConsistency ==
    /\ \A r \in DOMAIN references :
          \A s \in DOMAIN resolved_references \cup {ClassNameSymbol} :
              Listed(s, r) = IF references[r] = s THEN 1 ELSE 0
    /\ \A n \in ClassNameReferences :
          Finished(n) =>
              /\ Listed(ClassNameSymbol, n) = 0
              /\ static_binding # NoBinding
              /\ Listed(static_binding.symbol_id, n) = 1

\* A scope that lay directly in the class before the pass.
FirstLevel(s) == lex[s].scope = ClassScopeId

\* C5: a scope of the initializer is given the call-site scope as parent when
\* it is visited if it is a first-level scope, whatever walk_deep is, and
\* every such scope has been visited when the visitor returns; every deeper
\* scope keeps the parent it had.
C5_ReparentRule ==
    \A s \in ScopeNodes(orig) :
        /\ scope_parent[s] =
             IF FirstLevel(s) /\ s \in visited THEN CurrentScopeId ELSE lex[s].scope
        /\ Finished(s) /\ FirstLevel(s) => s \in visited
        /\ FirstLevel(s) =>
             orig[s].kind \in {"Function", "ArrowFunctionExpression", "Class",
                               "TSConditionalType", "TSMethodSignature",
                               "TSConstructSignatureDeclaration", "TSMappedType"}

\* With walk_deep false, a first-level scope has the call-site scope as
\* parent and a scope directly inside it, visited too, has kept its parent.
C5_Witness ==
    /\ started > 0
    /\ ~walk_deep
    /\ \E s, d \in ScopeNodes(orig) :
          /\ FirstLevel(s)
          /\ scope_parent[s] = CurrentScopeId
          /\ d \in visited
          /\ lex[d].scope = s
          /\ scope_parent[d] = s

C7_DeleteThis ==
    \A n \in DeleteThisNodes :
        LET argument == orig[n].kids[1]
        IN  /\ ast[n] = IF n \in visited /\ lex[n].this_depth = 0
                        THEN ExpressionBooleanLiteral(orig[n].span, TRUE)
                        ELSE orig[n]
            /\ ast[argument] = orig[argument]
            /\ argument \notin visited
            /\ n \notin requested /\ argument \notin requested

\* One `delete this` at this-depth 0 became `true` and one inside an
\* ordinary function was visited and left alone.
C7_Witness ==
    \E n, m \in DeleteThisNodes \cap visited :
        /\ lex[n].this_depth = 0
        /\ ast[n].kind = "BooleanLiteral"
        /\ lex[m].this_depth > 0
        /\ ast[m] = orig[m]

\* The expressions `visit_expression` hands to a delegate.
SuperFormKinds ==
    {"StaticMemberExpression", "ComputedMemberExpression", "CallExpression",
     "AssignmentExpression", "UpdateExpression"}

\* The delegate for each.
DelegateFor(kind) ==
    CASE kind = "StaticMemberExpression" -> "transform_static_member_expression"
      [] kind = "ComputedMemberExpression" -> "transform_computed_member_expression"
      [] kind = "CallExpression" -> "transform_call_expression_for_super_member_expr"
      [] kind = "AssignmentExpression" ->
            "transform_assignment_expression_for_super_assignment_target"
      [] kind = "UpdateExpression" ->
            "transform_update_expression_for_super_assignment_target"

\* The delegate calls made for node n.
CallsFor(n) == { i \in 1..Len(delegate_log) : delegate_log[i].n = n }

\* A visit of node n is pending.
Pending(n) == \E j \in 1..Len(stack) : stack[j].op = "visit" /\ stack[j].n = n

\* C8: for a visited member, call, assignment or update expression the
\* delegate of its kind was called once, before any of its children was
\* visited, if the expression is at this-depth 0, and no delegate was called
\* for it otherwise; no delegate is called for anything else; and the
\* children of what the delegate left are visited next.
C8_SuperDelegation ==
    /\ \A n \in visited :
          orig[n].kind \in SuperFormKinds =>
              /\ IF lex[n].this_depth = 0
                 THEN \E i \in CallsFor(n) :
                         /\ CallsFor(n) = {i}
                         /\ delegate_log[i].delegate = DelegateFor(orig[n].kind)
                         /\ ~delegate_log[i].walked
                 ELSE CallsFor(n) = {}
              /\ \A j \in 1..Len(ast[n].kids) :
                    ast[n].kids[j] \in visited \/ Pending(ast[n].kids[j])
    /\ \A i \in 1..Len(delegate_log) :
          /\ delegate_log[i].n \in visited
          /\ orig[delegate_log[i].n].kind \in SuperFormKinds
          /\ delegate_log[i].this_depth = 0

\* A `super` call at this-depth 0 went to its delegate and was replaced, and
\* a `super` member inside an ordinary function in its arguments was visited
\* with no delegate called.
C8_Witness ==
    \E n, m \in visited :
        /\ orig[n].kind = "CallExpression"
        /\ lex[n].this_depth = 0
        /\ ast[n].kind = "SuperHelperCall"
        /\ CallsFor(n) # {}
        /\ orig[m].kind = "StaticMemberExpression"
        /\ lex[m].this_depth > 0
        /\ IsSuperMember(orig, m)
        /\ ast[m] = orig[m]
        /\ CallsFor(m) = {}

\* C9: walk_deep is true iff the enclosing scope is sloppy mode or the class
\* has a name; and while walk_deep is false this_depth is 0, no node inside a
\* `this` boundary is visited, and no static block, property definition or
\* accessor property is visited.
C9_NoDescentWithoutWalkDeep ==
    started > 0 =>
        /\ walk_deep <=> (EnclosingSloppy \/ name_binding # NoSymbol)
        /\ ~walk_deep =>
              /\ this_depth = 0
              /\ \A n \in visited :
                    /\ lex[n].this_depth = 0
                    /\ orig[n].kind \notin {"StaticBlock", "PropertyDefinition",
                                            "AccessorProperty"}

\* C10: the visit of a node leaves this_depth, scope_depth and
\* make_sloppy_mode as it found them; the counters never pass below 0; when
\* the visitor returns both are 0 and make_sloppy_mode is what `new` set; and
\* walk_deep stays what `new` set.
C10_TraversalStateBalanced ==
    /\ exit_check.exit = exit_check.entry
    /\ this_depth >= 0
    /\ scope_depth >= 0
    /\ \A j \in 1..Len(stack) :
          stack[j].op # "visit" =>
              /\ stack[j].entry[1] <= this_depth
              /\ stack[j].entry[2] <= scope_depth
    /\ started > 0 =>
          /\ walk_deep <=> (EnclosingSloppy \/ name_binding # NoSymbol)
          /\ stack = <<>> =>
                /\ this_depth = 0
                /\ scope_depth = 0
                /\ make_sloppy_mode = EnclosingSloppy

\* With walk_deep false the visit of an ordinary function, whose body is
\* skipped, has just ended.
C10_Witness ==
    /\ started > 0
    /\ ~walk_deep
    /\ exit_check.n # 0
    /\ orig[exit_check.n].kind = "Function"

\* C11: no step of the pass adds a flag to a scope or removes a flag other
\* than StrictMode from one; when the scope enclosing the class is strict
\* mode no step changes the flags of any scope; and no step adds a scope to
\* the scope tree or removes one from it.
C11_ScopeFlagsFrame ==
    [][ /\ DOMAIN scope_flags' = DOMAIN scope_flags
        /\ DOMAIN scope_parent' = DOMAIN scope_parent
        /\ \A s \in DOMAIN scope_flags :
              /\ scope_flags'[s] \subseteq scope_flags[s]
              /\ scope_flags[s] \ scope_flags'[s] \subseteq {"StrictMode"}
        /\ ~EnclosingSloppy => scope_flags' = scope_flags ]_vars

\* A named class in a strict mode scope: the walk went into an ordinary
\* function, entered its scope and a scope inside it, and returned with the
\* flags of both as they were.
C11_Witness ==
    /\ ~EnclosingSloppy
    /\ Returned(1)
    /\ \E s, d \in entered :
          /\ orig[s].kind = "Function"
          /\ lex[d].scope = s
          /\ scope_flags[s] = {"StrictMode"} \cup KindFlag("Function")
          /\ scope_flags[d] = {"StrictMode"} \cup KindFlag(orig[d].kind)

====
